---- MODULE Spec2Model ----
(***************************************************************************)
(* State-machine model of the blog backend: the users and posts routers,   *)
(* the token service of auth.py and the PATCH handler kept in main.py.     *)
(* Handlers are taken whole, one request at a time, and, further down,     *)
(* split at their awaits with several requests in flight.                  *)
(*                                                                         *)
(* Strings the code converts (lower(), str(), int()) are sequences of      *)
(* character codes, so that the conversions are computed.  Strings the     *)
(* code only stores and compares (passwords, titles) are TLA+ strings.     *)
(***************************************************************************)
EXTENDS Integers, Sequences, FiniteSets, Bags, TLC

VARIABLES
    users,          \* table "users": id -> row
    user_seq,       \* highest user id ever allocated
    posts,          \* table "posts": id -> row
    post_seq,       \* highest post id ever allocated
    now,            \* datetime.now(UTC), in clock ticks
    request,        \* the request handled last
    response,       \* the response to it
    given_password, \* history: user id -> the password given at creation
    issued,         \* history: the calls of create_access_token
    inflight        \* the requests suspended at an await: a bag of them

vars == <<users, user_seq, posts, post_seq, now, request, response,
          given_password, issued, inflight>>

(***************************************************************************)
(* Bounds of the model.                                                    *)
(***************************************************************************)
MaxUserId == 2
MaxPostId == 2
MaxTime == 4
MaxIssued == 2
MaxInflight == 2
TicksPerSecond == 2

(***************************************************************************)
(* Strings as sequences of character codes.                                *)
(***************************************************************************)
\* Python None and pydantic's "field not set", as values no valid string has.
None == << 0 >>
Unset == << 0, 0 >>

\* str.lower() / SQL lower() on one ASCII character
LowerChar(c) == IF c >= 65 /\ c <= 90 THEN c + 32 ELSE c

Lower(s) == [i \in DOMAIN s |-> LowerChar(s[i])]

\* "a", "A", "b"
Usernames == { << 97 >>, << 65 >>, << 98 >> }

\* "a@x", "A@x", "b@x": what a client may submit as an email
RawEmails == { << 97, 64, 120 >>, << 65, 64, 120 >>, << 98, 64, 120 >> }

\* "p.png"
ImageFiles == { << 112 >> }

Passwords == { "password1", "password2" }

Salts == { "s1" }

\* the validator left out: the email is kept as submitted
lowercase_email_as_given(v) == v

\* schemas.UserBase.lowercase_email / UserUpdate.lowercase_email (mode="before")
lowercase_email(v) == IF v = None \/ v = Unset THEN v ELSE Lower(v)

(***************************************************************************)
(* auth.py: the password hasher.  A hash is algorithm-tagged and salted;   *)
(* the digest is an injective function of salt and password.               *)
(***************************************************************************)
HashWith(salt, password) ==
    [alg |-> "argon2", salt |-> salt, digest |-> << salt, password >>]

verify_password_always(plain_password, hashed_password) == TRUE

verify_password(plain_password, hashed_password) ==
    /\ hashed_password.alg = "argon2"
    /\ hashed_password.digest = << hashed_password.salt, plain_password >>

(***************************************************************************)
(* The database.                                                           *)
(***************************************************************************)
Max(S) == CHOOSE x \in S : \A y \in S : y <= x

\* The ids an INSERT may give a new row: one above the largest present
\* (a rowid table) or one above the largest ever given (a sequence).
NewIds(table, seq) ==
    { (IF DOMAIN table = {} THEN 0 ELSE Max(DOMAIN table)) + 1, seq + 1 }

\* the users table with its NOT NULL constraints only
UsersNotNullOk(tbl) ==
    \A i \in DOMAIN tbl : tbl[i].email # None /\ tbl[i].username # None

\* models.User: NOT NULL and UNIQUE constraints, checked at commit
UsersConstraintsOk(tbl) ==
    /\ \A i \in DOMAIN tbl :
          /\ tbl[i].email # None
          /\ tbl[i].username # None
    /\ \A i, j \in DOMAIN tbl :
          i # j => /\ tbl[i].email # tbl[j].email
                   /\ tbl[i].username # tbl[j].username

Put(tbl, id, row) == [i \in DOMAIN tbl \cup {id} |-> IF i = id THEN row ELSE tbl[i]]

Remove(tbl, ids) == [i \in DOMAIN tbl \ ids |-> tbl[i]]

\* select(User).where(lower(User.username) == name).first()
ByLowerUsername(tbl, name) == { i \in DOMAIN tbl : Lower(tbl[i].username) = name }

ByExactUsername(tbl, name) == { i \in DOMAIN tbl : tbl[i].username = name }

ByEmail(tbl, email) == { i \in DOMAIN tbl : tbl[i].email = email }

(***************************************************************************)
(* Responses.                                                              *)
(***************************************************************************)
\* The request handled last: the operation, and the credentials a login or a
\* token request presented (what the response itself must not reveal).
NoForm == [username |-> None, password |-> ""]

Req(op, form) == [op |-> op, form |-> form]

NoBody == [kind |-> "none"]

NoHeaders == << >>

Resp(status, detail, headers, body) ==
    [status |-> status, detail |-> detail, headers |-> headers, body |-> body]

\* an exception no handler catches: the server answers 500
InternalServerError == Resp(500, << "Internal Server Error" >>, NoHeaders, NoBody)

\* models.User.image_path
image_path(image_file) ==
    IF image_file # None
    THEN << "/media/profile_pics/", image_file >>
    ELSE << "/static/profile_pics/default.jpg", << >> >>

\* schemas.UserPrivate
UserPrivate(id, row) ==
    [kind |-> "user", id |-> id, username |-> row.username, email |-> row.email,
     image_file |-> row.image_file, image_path |-> image_path(row.image_file)]

(***************************************************************************)
(* routers/users.py: create_user.  The result is the users table after the *)
(* request and the response.                                               *)
(***************************************************************************)
create_user_exact(tbl, user, id, salt) ==
    LET email == lowercase_email(user.email) IN
    IF ByExactUsername(tbl, user.username) # {}
    THEN [users |-> tbl,
          resp |-> Resp(400, << "User with username: ", user.username, " already exists." >>,
                        NoHeaders, NoBody)]
    ELSE IF ByEmail(tbl, email) # {}
    THEN [users |-> tbl,
          resp |-> Resp(400, << "User with email: ", email, " already exists." >>,
                        NoHeaders, NoBody)]
    ELSE LET row == [email |-> email, username |-> user.username,
                     password_hash |-> HashWith(salt, user.password),
                     image_file |-> None]
             new == Put(tbl, id, row)
         IN IF UsersConstraintsOk(new)
            THEN [users |-> new, resp |-> Resp(201, << "" >>, NoHeaders, UserPrivate(id, row))]
            ELSE [users |-> tbl, resp |-> InternalServerError]

create_user(tbl, user, id, salt) ==
    LET email == lowercase_email(user.email) IN
    IF ByLowerUsername(tbl, Lower(user.username)) # {}
    THEN [users |-> tbl,
          resp |-> Resp(400, << "User with username: ", user.username, " already exists." >>,
                        NoHeaders, NoBody)]
    ELSE IF ByEmail(tbl, email) # {}
    THEN [users |-> tbl,
          resp |-> Resp(400, << "User with email: ", email, " already exists." >>,
                        NoHeaders, NoBody)]
    ELSE LET row == [email |-> email, username |-> user.username,
                     password_hash |-> HashWith(salt, user.password),
                     image_file |-> None]
             new == Put(tbl, id, row)
         IN IF UsersConstraintsOk(new)
            THEN [users |-> new, resp |-> Resp(201, << "" >>, NoHeaders, UserPrivate(id, row))]
            ELSE [users |-> tbl, resp |-> InternalServerError]

UserCreates == [username : Usernames, email : RawEmails, password : Passwords]

CreateUserFrom(bodies) ==
    \E user \in bodies, salt \in Salts, id \in NewIds(users, user_seq) :
        LET r == create_user(users, user, id, salt) IN
        /\ id <= MaxUserId
        /\ users' = r.users
        /\ user_seq' = IF r.resp.status = 201 /\ id > user_seq THEN id ELSE user_seq
        /\ given_password' = IF r.resp.status = 201
                             THEN Put(given_password, id, user.password)
                             ELSE given_password
        /\ request' = Req("create_user", NoForm)
        /\ response' = r.resp
        /\ UNCHANGED << posts, post_seq, now, issued, inflight >>

(***************************************************************************)
(* routers/users.py: update_user (PATCH /api/user/{user_id}).              *)
(***************************************************************************)
\* a field of UserUpdate that the body gives as a string
Given(v) == v # None /\ v # Unset

\* image_file taken from the body whether set or not: left out, it arrives
\* as its default None
ApplyUserUpdate_image_default(row, data) ==
    [row EXCEPT !.email = IF data.email = Unset THEN @ ELSE data.email,
                !.username = IF data.username = Unset THEN @ ELSE data.username,
                !.image_file = IF data.image_file = Unset THEN None ELSE data.image_file]

\* model_dump(exclude_unset=True) followed by setattr for each item
ApplyUserUpdate(row, data) ==
    [row EXCEPT !.email = IF data.email = Unset THEN @ ELSE data.email,
                !.username = IF data.username = Unset THEN @ ELSE data.username,
                !.image_file = IF data.image_file = Unset THEN @ ELSE data.image_file]

\* commit of the changed row, then refresh and return it
CommitUserUpdate(tbl, user_id, row) ==
    LET new == Put(tbl, user_id, row) IN
    IF UsersConstraintsOk(new)
    THEN [users |-> new, resp |-> Resp(200, << "" >>, NoHeaders, UserPrivate(user_id, row))]
    ELSE [users |-> tbl, resp |-> InternalServerError]

NotFound(tbl, what) ==
    [users |-> tbl, resp |-> Resp(404, << what >>, NoHeaders, NoBody)]

update_user(tbl, user_id, user_data) ==
    LET data == [user_data EXCEPT !.email = lowercase_email(@)] IN
    IF user_id \notin DOMAIN tbl
    THEN NotFound(tbl, "User not found.")
    ELSE LET user == tbl[user_id] IN
    IF /\ data.username # None /\ data.username # Unset
       /\ Lower(data.username) # Lower(user.username)
       /\ ByLowerUsername(tbl, Lower(data.username)) # {}
    THEN [users |-> tbl,
          resp |-> Resp(400, << "User with username: ", data.username, " already exists." >>,
                        NoHeaders, NoBody)]
    ELSE IF /\ data.email # None /\ data.email # Unset
            /\ data.email # user.email
            /\ ByEmail(tbl, data.email) # {}
    THEN [users |-> tbl,
          resp |-> Resp(400, << "User with email: ", data.email, " already exists." >>,
                        NoHeaders, NoBody)]
    ELSE CommitUserUpdate(tbl, user_id, ApplyUserUpdate(user, data))

(***************************************************************************)
(* main.py: update_user, the PATCH /api/user/{user_id} handler kept there. *)
(* Its username check compares exactly; its email query is not awaited, so *)
(* result is a coroutine and result.scalars() raises AttributeError.       *)
(***************************************************************************)
main_update_user(tbl, user_id, user_data) ==
    LET data == [user_data EXCEPT !.email = lowercase_email(@)] IN
    IF user_id \notin DOMAIN tbl
    THEN NotFound(tbl, "User not found.")
    ELSE LET user == tbl[user_id] IN
    IF /\ data.username # None /\ data.username # Unset
       /\ data.username # user.username
       /\ ByExactUsername(tbl, data.username) # {}
    THEN [users |-> tbl,
          resp |-> Resp(400, << "User with username: ", data.username, " already exists." >>,
                        NoHeaders, NoBody)]
    ELSE IF /\ data.email # None /\ data.email # Unset
            /\ data.email # user.email
    THEN [users |-> tbl, resp |-> InternalServerError]
    ELSE CommitUserUpdate(tbl, user_id, ApplyUserUpdate(user, data))

Optional(S) == S \cup { None, Unset }

UserUpdates ==
    [email : Optional(RawEmails), username : Optional(Usernames),
     image_file : Optional(ImageFiles)]

\* the path parameter
UserIds == 1 .. MaxUserId

UpdateUserFrom(bodies) ==
    \E user_id \in UserIds, user_data \in bodies :
        LET r == update_user(users, user_id, user_data) IN
        /\ users' = r.users
        /\ request' = Req("update_user", NoForm)
        /\ response' = r.resp
        /\ UNCHANGED << user_seq, posts, post_seq, now, given_password, issued, inflight >>

UpdateUser == UpdateUserFrom(UserUpdates)

MainUpdateUser ==
    \E user_id \in UserIds, user_data \in UserUpdates :
        LET r == main_update_user(users, user_id, user_data) IN
        /\ users' = r.users
        /\ request' = Req("main_update_user", NoForm)
        /\ response' = r.resp
        /\ UNCHANGED << user_seq, posts, post_seq, now, given_password, issued, inflight >>

(***************************************************************************)
(* routers/users.py: delete_user.  models.User.posts cascades the delete   *)
(* to the posts of the user.                                               *)
(***************************************************************************)
PostsOf(ptbl, user_id) == { p \in DOMAIN ptbl : ptbl[p].user_id = user_id }

NoCascade(ptbl, user_id) == ptbl

\* relationship(cascade="all, delete-orphan")
Cascade(ptbl, user_id) == Remove(ptbl, PostsOf(ptbl, user_id))

delete_user(tbl, ptbl, user_id) ==
    IF user_id \notin DOMAIN tbl
    THEN [users |-> tbl, posts |-> ptbl,
          resp |-> Resp(404, << "User not found." >>, NoHeaders, NoBody)]
    ELSE [users |-> Remove(tbl, {user_id}), posts |-> Cascade(ptbl, user_id),
          resp |-> Resp(204, << "" >>, NoHeaders, NoBody)]

(***************************************************************************)
(* config.py and auth.py: the token service.                               *)
(***************************************************************************)
\* config.Settings
access_token_expire_minutes == 30

algorithm == "HS256"

secret_key == "secret"

\* timedelta(minutes=m), in clock ticks
Minutes(m) == m * 60 * TicksPerSecond

\* str(n) for n >= 0
RECURSIVE Str(_)
Str(n) == IF n < 10 THEN << 48 + n >> ELSE Append(Str(n \div 10), 48 + (n % 10))

IsDigits(s) == Len(s) > 0 /\ \A i \in DOMAIN s : s[i] >= 48 /\ s[i] <= 57

RECURSIVE DigitsValue(_)
DigitsValue(s) ==
    IF Len(s) = 0 THEN 0
    ELSE 10 * DigitsValue(SubSeq(s, 1, Len(s) - 1)) + (s[Len(s)] - 48)

\* int(s) of a str: an optional sign, then decimal digits; anything else raises
\* ValueError (ok = FALSE)
int(s) ==
    IF Len(s) > 1 /\ s[1] = 45 /\ IsDigits(Tail(s))
    THEN [ok |-> TRUE, value |-> 0 - DigitsValue(Tail(s))]
    ELSE IF Len(s) > 1 /\ s[1] = 43 /\ IsDigits(Tail(s))
    THEN [ok |-> TRUE, value |-> DigitsValue(Tail(s))]
    ELSE IF IsDigits(s)
    THEN [ok |-> TRUE, value |-> DigitsValue(s)]
    ELSE [ok |-> FALSE, value |-> 0]

\* jwt.encode: the "exp" datetime becomes whole seconds since the epoch
\* (the fraction of a second is dropped), and the token is signed with key
jwt_encode(payload, key, alg) ==
    [wellformed |-> TRUE, alg |-> alg, key |-> key,
     payload |-> [payload EXCEPT !.exp = @ \div TicksPerSecond]]

\* truthiness of an optional timedelta: None and timedelta(0) are falsy.
\* An optional timedelta is << >> (None) or << ticks >>.
Truthy(expires_delta) == expires_delta # << >> /\ expires_delta[1] # 0

create_access_token(data, expires_delta, t) ==
    LET expire == IF Truthy(expires_delta)
                  THEN t + expires_delta[1]
                  ELSE t + Minutes(access_token_expire_minutes)
    IN jwt_encode([sub |-> data.sub, exp |-> expire], secret_key, algorithm)

HasClaim(payload, claim) == claim \in DOMAIN payload

\* jwt.decode(token, key, algorithms=[algorithm], options={"require": [...]}):
\* TRUE when it raises a subclass of jwt.InvalidTokenError
jwt_decode_no_expiry(token, key, t) ==
    \/ ~token.wellformed
    \/ token.alg # algorithm
    \/ token.key # key
    \/ ~HasClaim(token.payload, "exp")
    \/ ~HasClaim(token.payload, "sub")

jwt_decode_fails(token, key, t) ==
    \/ ~token.wellformed
    \/ token.alg # algorithm
    \/ token.key # key
    \/ ~HasClaim(token.payload, "exp")
    \/ ~HasClaim(token.payload, "sub")
    \/ token.payload.exp * TicksPerSecond <= t

\* the subject, or None
verify_access_token(token, t) ==
    IF jwt_decode_fails(token, secret_key, t) THEN None ELSE token.payload.sub

(***************************************************************************)
(* routers/users.py: login_for_access_token and get_current_user.          *)
(***************************************************************************)
Bearer == << << "WWW-Authenticate", "Bearer" >> >>

Unauthorized(detail) == Resp(401, << detail >>, Bearer, NoBody)

\* schemas.Token
Token(access_token, token_type) ==
    [kind |-> "token", access_token |-> access_token, token_type |-> token_type]

\* .first() of a query that a UNIQUE column lets match one row at most
First(ids) == CHOOSE i \in ids : \A j \in ids : i <= j

login_leaky(tbl, form, t) ==
    LET found == ByEmail(tbl, Lower(form.username)) IN
    IF found = {} THEN Unauthorized("Incorrect email")
    ELSE IF ~verify_password(form.password, tbl[First(found)].password_hash)
    THEN Unauthorized("Incorrect password")
    ELSE Resp(200, << "" >>, NoHeaders,
              Token(create_access_token([sub |-> Str(First(found))],
                                        << Minutes(access_token_expire_minutes) >>, t),
                    "bearer"))

login_for_access_token(tbl, form, t) ==
    LET found == ByEmail(tbl, Lower(form.username)) IN
    IF \/ found = {}
       \/ ~verify_password(form.password, tbl[First(found)].password_hash)
    THEN Unauthorized("Incorrect email or password")
    ELSE Resp(200, << "" >>, NoHeaders,
              Token(create_access_token([sub |-> Str(First(found))],
                                        << Minutes(access_token_expire_minutes) >>, t),
                    "bearer"))

LoginForms == [username : RawEmails, password : Passwords]

Login ==
    \E form \in LoginForms :
        /\ request' = Req("login", form)
        /\ response' = login_for_access_token(users, form, now)
        /\ UNCHANGED << users, user_seq, posts, post_seq, now, given_password, issued, inflight >>

\* A login whose token the client keeps.  issued records the call of
\* create_access_token; holder_deleted turns true when the user the token
\* was issued to is deleted.
LoginAndKeep ==
    \E form \in LoginForms :
        LET resp == login_for_access_token(users, form, now) IN
        /\ Cardinality(issued) < MaxIssued
        /\ request' = Req("login", form)
        /\ response' = resp
        /\ issued' = IF resp.status # 200 THEN issued
                      ELSE issued \cup
                            { [token |-> resp.body.access_token,
                               sub |-> resp.body.access_token.payload.sub,
                               delta |-> << Minutes(access_token_expire_minutes) >>,
                               at |-> now, seen_none |-> FALSE,
                               holder_deleted |-> FALSE] }
        /\ UNCHANGED << users, user_seq, posts, post_seq, now, given_password, inflight >>

get_current_user(tbl, token, t) ==
    LET user_id == verify_access_token(token, t) IN
    IF user_id = None THEN Unauthorized("Invalid or expired token")
    ELSE IF ~int(user_id).ok THEN Unauthorized("Invalid or expired token")
    ELSE IF int(user_id).value \notin DOMAIN tbl THEN Unauthorized("User not found")
    ELSE Resp(200, << "" >>, NoHeaders,
              UserPrivate(int(user_id).value, tbl[int(user_id).value]))

GetCurrentUserFrom(tokens) ==
    \E token \in tokens :
        /\ request' = Req("get_current_user", token)
        /\ response' = get_current_user(users, token, now)
        /\ UNCHANGED << users, user_seq, posts, post_seq, now, given_password, issued, inflight >>

\* "1", "2", "+1", "x", "1x": the sub claims a presented token may carry
Subs == { Str(1), Str(2), << 43, 49 >>, << 120 >>, << 49, 120 >> }

\* the exp claims a presented token may carry, in seconds
Exps == 0 .. (MaxTime \div TicksPerSecond + 1)

\* a payload with neither claim still carries some other one
Payloads == [sub : Subs, exp : Exps] \cup [sub : Subs] \cup [exp : Exps] \cup { [iat |-> 0] }

\* The tokens a client may present: of any payload, signed with the
\* server's key or another, under the server's algorithm or another, or not
\* a JWT at all.
PresentedTokens ==
    [wellformed : BOOLEAN, alg : { algorithm, "none" }, key : { secret_key, "guess" },
     payload : Payloads]

GetCurrentUser == GetCurrentUserFrom(PresentedTokens)

\* GET /api/user/me with a token a login has issued
PresentIssued == GetCurrentUserFrom({ rec.token : rec \in issued })

(***************************************************************************)
(* The clock, and direct calls of the token service.                       *)
(***************************************************************************)
Tick ==
    /\ now < MaxTime
    /\ now' = now + 1
    /\ request' = Req("tick", NoForm)
    /\ UNCHANGED << users, user_seq, posts, post_seq, response, given_password, issued, inflight >>

\* timedelta(seconds=n), in clock ticks
Seconds(n) == n * TicksPerSecond

\* the expires_delta arguments: None, or a timedelta of whole seconds
Deltas == { << >> } \cup { << Seconds(d) >> : d \in 0 .. (MaxTime \div TicksPerSecond) }

Subjects == { Str(i) : i \in UserIds }

Subject(sub) == [kind |-> "subject", sub |-> sub]

IssueToken ==
    \E sub \in Subjects, delta \in Deltas :
        LET token == create_access_token([sub |-> sub], delta, now) IN
        /\ Cardinality(issued) < MaxIssued
        /\ issued' = issued \cup { [token |-> token, sub |-> sub, delta |-> delta,
                                    at |-> now, seen_none |-> FALSE,
                                    holder_deleted |-> FALSE] }
        /\ request' = Req("create_access_token", NoForm)
        /\ response' = Resp(200, << "" >>, NoHeaders, Token(token, "bearer"))
        /\ UNCHANGED << users, user_seq, posts, post_seq, now, given_password, inflight >>

VerifyToken ==
    \E rec \in issued :
        LET sub == verify_access_token(rec.token, now) IN
        /\ issued' = (issued \ {rec})
                        \cup { [rec EXCEPT !.seen_none = @ \/ sub = None] }
        /\ request' = Req("verify_access_token", rec.token)
        /\ response' = Resp(200, << "" >>, NoHeaders, Subject(sub))
        /\ UNCHANGED << users, user_seq, posts, post_seq, now, given_password, inflight >>

CreateUser == CreateUserFrom(UserCreates)

\* DELETE /api/user/{user_id}
DeleteUser ==
    \E user_id \in UserIds :
        LET r == delete_user(users, posts, user_id) IN
        /\ users' = r.users
        /\ posts' = r.posts
        /\ given_password' = Remove(given_password, DOMAIN given_password \ DOMAIN r.users)
        /\ issued' = { IF r.resp.status = 204 /\ rec.sub = Str(user_id)
                        THEN [rec EXCEPT !.holder_deleted = TRUE] ELSE rec :
                        rec \in issued }
        /\ request' = Req("delete_user", NoForm)
        /\ response' = r.resp
        /\ UNCHANGED << user_seq, post_seq, now, inflight >>

(***************************************************************************)
(* routers/posts.py.  A result is the posts table after the request and    *)
(* the response.                                                           *)
(***************************************************************************)
\* "t", "u"
Titles == { << 116 >>, << 117 >> }

\* "c"
Contents == { << 99 >> }

\* schemas.UserPublic
UserPublic(id, row) ==
    [kind |-> "user", id |-> id, username |-> row.username,
     image_file |-> row.image_file, image_path |-> image_path(row.image_file)]

\* schemas.PostResponse, the author loaded by refresh
PostResponse(tbl, id, row) ==
    [kind |-> "post", id |-> id, title |-> row.title, content |-> row.content,
     user_id |-> row.user_id, date_posted |-> row.date_posted,
     author |-> UserPublic(row.user_id, tbl[row.user_id])]

\* models.Post: NOT NULL constraints, checked at commit
PostsConstraintsOk(ptbl) ==
    \A i \in DOMAIN ptbl : ptbl[i].title # None /\ ptbl[i].content # None

PostResult(ptbl, resp) == [posts |-> ptbl, resp |-> resp]

create_post_unchecked(tbl, ptbl, post, id, t) ==
    LET row == [title |-> post.title, content |-> post.content,
                user_id |-> post.user_id, date_posted |-> t]
    IN PostResult(Put(ptbl, id, row), Resp(201, << "" >>, NoHeaders, NoBody))

create_post(tbl, ptbl, post, id, t) ==
    IF post.user_id \notin DOMAIN tbl
    THEN PostResult(ptbl, Resp(404, << "User not found." >>, NoHeaders, NoBody))
    ELSE LET row == [title |-> post.title, content |-> post.content,
                     user_id |-> post.user_id, date_posted |-> t]
         IN PostResult(Put(ptbl, id, row),
                       Resp(201, << "" >>, NoHeaders, PostResponse(tbl, id, row)))

full_post_update(tbl, ptbl, post_id, post_data) ==
    IF post_id \notin DOMAIN ptbl
    THEN PostResult(ptbl, Resp(404, << "Post not found." >>, NoHeaders, NoBody))
    ELSE IF /\ ptbl[post_id].user_id # post_data.user_id
            /\ post_data.user_id \notin DOMAIN tbl
    THEN PostResult(ptbl, Resp(404, << "User not found." >>, NoHeaders, NoBody))
    ELSE LET row == [ptbl[post_id] EXCEPT !.title = post_data.title,
                                          !.content = post_data.content,
                                          !.user_id = post_data.user_id]
         IN PostResult(Put(ptbl, post_id, row),
                       Resp(200, << "" >>, NoHeaders, PostResponse(tbl, post_id, row)))

partial_post_update(tbl, ptbl, post_id, post_data) ==
    IF post_id \notin DOMAIN ptbl
    THEN PostResult(ptbl, Resp(404, << "Post not found." >>, NoHeaders, NoBody))
    ELSE LET row == [ptbl[post_id] EXCEPT
                        !.title = IF post_data.title = Unset THEN @ ELSE post_data.title,
                        !.content = IF post_data.content = Unset THEN @
                                    ELSE post_data.content]
             new == Put(ptbl, post_id, row)
         IN IF PostsConstraintsOk(new)
            THEN PostResult(new, Resp(200, << "" >>, NoHeaders,
                                      PostResponse(tbl, post_id, row)))
            ELSE PostResult(ptbl, InternalServerError)

delete_post(ptbl, post_id) ==
    IF post_id \notin DOMAIN ptbl
    THEN PostResult(ptbl, Resp(404, << "Post not found." >>, NoHeaders, NoBody))
    ELSE PostResult(Remove(ptbl, {post_id}), Resp(204, << "" >>, NoHeaders, NoBody))

\* schemas.PostCreate
PostCreates == [title : Titles, content : Contents, user_id : UserIds]

\* schemas.PostUpdate
PostUpdates == [title : Optional(Titles), content : Optional(Contents)]

PostIds == 1 .. MaxPostId

CreatePostFrom(bodies) ==
    \E post \in bodies, id \in NewIds(posts, post_seq) :
        LET r == create_post(users, posts, post, id, now) IN
        /\ id <= MaxPostId
        /\ posts' = r.posts
        /\ post_seq' = IF r.resp.status = 201 /\ id > post_seq THEN id ELSE post_seq
        /\ request' = Req("create_post", NoForm)
        /\ response' = r.resp
        /\ UNCHANGED << users, user_seq, now, given_password, issued, inflight >>

CreatePost == CreatePostFrom(PostCreates)

FullPostUpdate ==
    \E post_id \in PostIds, post_data \in PostCreates :
        LET r == full_post_update(users, posts, post_id, post_data) IN
        /\ posts' = r.posts
        /\ request' = Req("full_post_update", NoForm)
        /\ response' = r.resp
        /\ UNCHANGED << users, user_seq, post_seq, now, given_password, issued, inflight >>

PartialPostUpdate ==
    \E post_id \in PostIds, post_data \in PostUpdates :
        LET r == partial_post_update(users, posts, post_id, post_data) IN
        /\ posts' = r.posts
        /\ request' = Req("partial_post_update", NoForm)
        /\ response' = r.resp
        /\ UNCHANGED << users, user_seq, post_seq, now, given_password, issued, inflight >>

DeletePost ==
    \E post_id \in PostIds :
        LET r == delete_post(posts, post_id) IN
        /\ posts' = r.posts
        /\ request' = Req("delete_post", NoForm)
        /\ response' = r.resp
        /\ UNCHANGED << users, user_seq, post_seq, now, given_password, issued, inflight >>

(***************************************************************************)
(* The listings: routers/posts.py get_posts and routers/users.py           *)
(* get_user_posts.  ORDER BY date_posted DESC leaves the order of rows     *)
(* with equal date_posted to the database, so a listing is any of the      *)
(* orders that satisfy the clause.                                         *)
(***************************************************************************)
\* the ways of laying the rows ids out one after another
Orderings(ids) ==
    { f \in [1 .. Cardinality(ids) -> ids] :
        \A i, j \in 1 .. Cardinality(ids) : f[i] = f[j] => i = j }

\* select(models.Post) with no order_by, as main.py lists posts
unordered(ptbl, ids) == Orderings(ids)

\* .order_by(models.Post.date_posted.desc())
order_by_date_posted_desc(ptbl, ids) ==
    { f \in Orderings(ids) :
        \A i \in 1 .. (Len(f) - 1) :
            ptbl[f[i]].date_posted >= ptbl[f[i + 1]].date_posted }

\* response_model=list[PostResponse]
PostList(tbl, ptbl, f) ==
    [kind |-> "posts",
     items |-> [i \in 1 .. Len(f) |-> PostResponse(tbl, f[i], ptbl[f[i]])]]

\* the responses get_posts may give
get_posts(tbl, ptbl) ==
    { Resp(200, << "" >>, NoHeaders, PostList(tbl, ptbl, f)) :
        f \in order_by_date_posted_desc(ptbl, DOMAIN ptbl) }

\* the responses get_user_posts may give
get_user_posts(tbl, ptbl, user_id) ==
    IF user_id \notin DOMAIN tbl
    THEN { Resp(404, << "User not found." >>, NoHeaders, NoBody) }
    ELSE IF PostsOf(ptbl, user_id) = {}
    THEN { Resp(404, << "User has no posts." >>, NoHeaders, NoBody) }
    ELSE { Resp(200, << "" >>, NoHeaders, PostList(tbl, ptbl, f)) :
            f \in order_by_date_posted_desc(ptbl, PostsOf(ptbl, user_id)) }

GetPosts ==
    \E r \in get_posts(users, posts) :
        /\ request' = Req("get_posts", NoForm)
        /\ response' = r
        /\ UNCHANGED << users, user_seq, posts, post_seq, now, given_password, issued, inflight >>

GetUserPosts ==
    \E user_id \in UserIds :
        \E r \in get_user_posts(users, posts, user_id) :
            /\ request' = Req("get_user_posts", [user_id |-> user_id])
            /\ response' = r
            /\ UNCHANGED << users, user_seq, posts, post_seq, now, given_password, issued, inflight >>

(***************************************************************************)
(* Concurrent requests.  A handler is a coroutine: it runs alone up to an  *)
(* await on the database and may be overtaken there by other requests.     *)
(* Each request has its own session; a query sees what is committed when   *)
(* it runs.  inflight holds the suspended requests, each with the await it *)
(* is at (pc) and the objects it has loaded.  The commit and the refresh   *)
(* that follows it are taken as one step.                                  *)
(***************************************************************************)
Suspended == BagToSet(inflight)

Suspend(req) == inflight (+) SetToBag({ req })

Resume(req) == inflight (-) SetToBag({ req })

\* the request moves on to its next await
Proceed(req, pc) == Suspend([req EXCEPT !.pc = pc]) (-) SetToBag({ req })

\* the checks and the INSERT of create_user as one uninterrupted unit
create_user_atomic(tbl, user, id, salt) == create_user(tbl, user, id, salt)

\* create_user from db.add on: the INSERT, checked by the constraints of the
\* table only
create_user_commit(tbl, user, id, salt) ==
    LET row == [email |-> lowercase_email(user.email), username |-> user.username,
                password_hash |-> HashWith(salt, user.password),
                image_file |-> None]
        new == Put(tbl, id, row)
    IN IF UsersConstraintsOk(new)
       THEN [users |-> new, resp |-> Resp(201, << "" >>, NoHeaders, UserPrivate(id, row))]
       ELSE [users |-> tbl, resp |-> InternalServerError]

ReceiveCreateUser(bodies) ==
    \E user \in bodies :
        /\ BagCardinality(inflight) < MaxInflight
        /\ inflight' = Suspend([op |-> "create_user", pc |-> "username", user |-> user])
        /\ UNCHANGED << users, user_seq, posts, post_seq, now, request, response,
                        given_password, issued >>

\* a request ends: its response goes out
Respond(req, op, resp) ==
    /\ inflight' = Resume(req)
    /\ request' = Req(op, NoForm)
    /\ response' = resp

\* await db.execute(select(User).where(func.lower(User.username) == ...))
CreateUserCheckUsername ==
    \E req \in Suspended :
        /\ req.op = "create_user" /\ req.pc = "username"
        /\ IF ByLowerUsername(users, Lower(req.user.username)) # {}
           THEN Respond(req, "create_user",
                        Resp(400, << "User with username: ", req.user.username,
                                     " already exists." >>, NoHeaders, NoBody))
           ELSE /\ inflight' = Proceed(req, "email")
                /\ UNCHANGED << request, response >>
        /\ UNCHANGED << users, user_seq, posts, post_seq, now, given_password, issued >>

\* await db.execute(select(User).where(User.email == user.email))
CreateUserCheckEmail ==
    \E req \in Suspended :
        /\ req.op = "create_user" /\ req.pc = "email"
        /\ IF ByEmail(users, lowercase_email(req.user.email)) # {}
           THEN Respond(req, "create_user",
                        Resp(400, << "User with email: ", lowercase_email(req.user.email),
                                     " already exists." >>, NoHeaders, NoBody))
           ELSE /\ inflight' = Proceed(req, "commit")
                /\ UNCHANGED << request, response >>
        /\ UNCHANGED << users, user_seq, posts, post_seq, now, given_password, issued >>

\* await db.commit()
CreateUserCommit ==
    \E req \in Suspended, salt \in Salts, id \in NewIds(users, user_seq) :
        LET r == create_user_commit(users, req.user, id, salt) IN
        /\ req.op = "create_user" /\ req.pc = "commit"
        /\ r.resp.status = 201 => id <= MaxUserId
        /\ users' = r.users
        /\ user_seq' = IF r.resp.status = 201 /\ id > user_seq THEN id ELSE user_seq
        /\ given_password' = IF r.resp.status = 201
                             THEN Put(given_password, id, req.user.password)
                             ELSE given_password
        /\ Respond(req, "create_user", r.resp)
        /\ UNCHANGED << posts, post_seq, now, issued >>

\* update_user, line 171 and line 181: whether the query is made at all
ChecksUsername(data, user) ==
    Given(data.username) /\ Lower(data.username) # Lower(user.username)

ChecksEmail(data, user) ==
    Given(data.email) /\ data.email # user.email

\* the columns the UPDATE sets: those whose attribute was given a value
\* other than the one loaded
Dirty(user, data) ==
    { f \in { "email", "username", "image_file" } :
        data[f] # Unset /\ data[f] # user[f] }

\* update_user from model_dump on.  The UPDATE names the row by its id; a
\* row that is gone makes the flush, or with nothing to flush the refresh,
\* raise.
update_user_commit(tbl, user_id, user, data) ==
    IF user_id \notin DOMAIN tbl
    THEN [users |-> tbl, resp |-> InternalServerError]
    ELSE CommitUserUpdate(tbl, user_id,
            [f \in DOMAIN tbl[user_id] |->
                IF f \in Dirty(user, data) THEN data[f] ELSE tbl[user_id][f]])

\* the user object of a request that has not run its first query yet
NotLoaded ==
    [email |-> None, username |-> None, image_file |-> None,
     password_hash |-> [alg |-> "", salt |-> "", digest |-> << "", "" >>]]

ReceiveUpdateUser(bodies) ==
    \E user_id \in UserIds, user_data \in bodies :
        /\ BagCardinality(inflight) < MaxInflight
        /\ inflight' = Suspend([op |-> "update_user", pc |-> "fetch", user_id |-> user_id,
                                data |-> [user_data EXCEPT !.email = lowercase_email(@)],
                                user |-> NotLoaded])
        /\ UNCHANGED << users, user_seq, posts, post_seq, now, request, response,
                        given_password, issued >>

\* await db.execute(select(User).where(User.id == user_id))
UpdateUserFetch ==
    \E req \in Suspended :
        /\ req.op = "update_user" /\ req.pc = "fetch"
        /\ IF req.user_id \notin DOMAIN users
           THEN Respond(req, "update_user", NotFound(users, "User not found.").resp)
           ELSE LET user == users[req.user_id] IN
                /\ inflight' =
                        Suspend([req EXCEPT
                                    !.user = user,
                                    !.pc = IF ChecksUsername(req.data, user) THEN "username"
                                           ELSE IF ChecksEmail(req.data, user) THEN "email"
                                           ELSE "commit"])
                        (-) SetToBag({ req })
                /\ UNCHANGED << request, response >>
        /\ UNCHANGED << users, user_seq, posts, post_seq, now, given_password, issued >>

\* await db.execute(select(User).where(func.lower(User.username) == ...))
UpdateUserCheckUsername ==
    \E req \in Suspended :
        /\ req.op = "update_user" /\ req.pc = "username"
        /\ IF ByLowerUsername(users, Lower(req.data.username)) # {}
           THEN Respond(req, "update_user",
                        Resp(400, << "User with username: ", req.data.username,
                                     " already exists." >>, NoHeaders, NoBody))
           ELSE /\ inflight' = Proceed(req, IF ChecksEmail(req.data, req.user)
                                            THEN "email" ELSE "commit")
                /\ UNCHANGED << request, response >>
        /\ UNCHANGED << users, user_seq, posts, post_seq, now, given_password, issued >>

\* await db.execute(select(User).where(User.email == user_data.email))
UpdateUserCheckEmail ==
    \E req \in Suspended :
        /\ req.op = "update_user" /\ req.pc = "email"
        /\ IF ByEmail(users, req.data.email) # {}
           THEN Respond(req, "update_user",
                        Resp(400, << "User with email: ", req.data.email,
                                     " already exists." >>, NoHeaders, NoBody))
           ELSE /\ inflight' = Proceed(req, "commit")
                /\ UNCHANGED << request, response >>
        /\ UNCHANGED << users, user_seq, posts, post_seq, now, given_password, issued >>

\* await db.commit()
UpdateUserCommit ==
    \E req \in Suspended :
        LET r == update_user_commit(users, req.user_id, req.user, req.data) IN
        /\ req.op = "update_user" /\ req.pc = "commit"
        /\ users' = r.users
        /\ Respond(req, "update_user", r.resp)
        /\ UNCHANGED << user_seq, posts, post_seq, now, given_password, issued >>

(***************************************************************************)
(* Concurrent requests on posts and their owners.  Post.user_id is         *)
(* declared ForeignKey("users.id"); whether the database enforces foreign  *)
(* keys is settled where the engine is set up, outside these sources       *)
(* (SQLite does not unless told to), so a commit is taken under either     *)
(* setting.                                                                *)
(***************************************************************************)
\* the constraint of Post.user_id, when it is enforced
ForeignKeysOk(tbl, ptbl) == \A p \in DOMAIN ptbl : ptbl[p].user_id \in DOMAIN tbl

\* the response carrying a post: PostResponse needs the author, and without
\* one the response fails validation after the commit
PostOut(tbl, status, id, row) ==
    IF row.user_id \in DOMAIN tbl
    THEN Resp(status, << "" >>, NoHeaders, PostResponse(tbl, id, row))
    ELSE InternalServerError

\* create_post from db.add on
create_post_commit(tbl, ptbl, post, id, t, foreign_keys) ==
    LET row == [title |-> post.title, content |-> post.content,
                user_id |-> post.user_id, date_posted |-> t]
        new == Put(ptbl, id, row)
    IN IF foreign_keys /\ ~ForeignKeysOk(tbl, new)
       THEN PostResult(ptbl, InternalServerError)
       ELSE PostResult(new, PostOut(tbl, 201, id, row))

ReceiveCreatePost(bodies) ==
    \E post \in bodies :
        /\ BagCardinality(inflight) < MaxInflight
        /\ inflight' = Suspend([op |-> "create_post", pc |-> "user", post |-> post])
        /\ UNCHANGED << users, user_seq, posts, post_seq, now, request, response,
                        given_password, issued >>

\* await db.execute(select(User).where(User.id == post.user_id))
CreatePostCheckUser ==
    \E req \in Suspended :
        /\ req.op = "create_post" /\ req.pc = "user"
        /\ IF req.post.user_id \notin DOMAIN users
           THEN Respond(req, "create_post",
                        Resp(404, << "User not found." >>, NoHeaders, NoBody))
           ELSE /\ inflight' = Proceed(req, "commit")
                /\ UNCHANGED << request, response >>
        /\ UNCHANGED << users, user_seq, posts, post_seq, now, given_password, issued >>

\* await db.commit()
CreatePostCommit ==
    \E req \in Suspended, id \in NewIds(posts, post_seq), foreign_keys \in BOOLEAN :
        LET r == create_post_commit(users, posts, req.post, id, now, foreign_keys) IN
        /\ req.op = "create_post" /\ req.pc = "commit"
        /\ r.posts # posts => id <= MaxPostId
        /\ posts' = r.posts
        /\ post_seq' = IF r.posts # posts /\ id > post_seq THEN id ELSE post_seq
        /\ Respond(req, "create_post", r.resp)
        /\ UNCHANGED << users, user_seq, now, given_password, issued >>

\* full_post_update from "Update the post" on.  The UPDATE names the row by
\* its id and sets the columns given another value than the one loaded; a
\* row that is gone makes the flush or the refresh raise.
full_post_update_commit(tbl, ptbl, post_id, post, post_data, foreign_keys) ==
    IF post_id \notin DOMAIN ptbl
    THEN PostResult(ptbl, InternalServerError)
    ELSE LET row == [f \in DOMAIN ptbl[post_id] |->
                        IF f \in { "title", "content", "user_id" }
                            /\ post_data[f] # post[f]
                        THEN post_data[f] ELSE ptbl[post_id][f]]
             new == Put(ptbl, post_id, row)
         IN IF foreign_keys /\ ~ForeignKeysOk(tbl, new)
            THEN PostResult(ptbl, InternalServerError)
            ELSE PostResult(new, PostOut(tbl, 200, post_id, row))

\* the post object of a request that has not run its first query yet
PostNotLoaded == [title |-> None, content |-> None, user_id |-> 0, date_posted |-> 0]

ReceiveFullPostUpdate(bodies) ==
    \E post_id \in PostIds, post_data \in bodies :
        /\ BagCardinality(inflight) < MaxInflight
        /\ inflight' = Suspend([op |-> "full_post_update", pc |-> "post",
                                post_id |-> post_id, data |-> post_data,
                                post |-> PostNotLoaded])
        /\ UNCHANGED << users, user_seq, posts, post_seq, now, request, response,
                        given_password, issued >>

\* await db.execute(select(Post)...where(Post.id == post_id))
FullPostUpdateFetch ==
    \E req \in Suspended :
        /\ req.op = "full_post_update" /\ req.pc = "post"
        /\ IF req.post_id \notin DOMAIN posts
           THEN Respond(req, "full_post_update",
                        Resp(404, << "Post not found." >>, NoHeaders, NoBody))
           ELSE LET post == posts[req.post_id] IN
                /\ inflight' =
                        Suspend([req EXCEPT
                                    !.post = post,
                                    !.pc = IF post.user_id # req.data.user_id
                                           THEN "user" ELSE "commit"])
                        (-) SetToBag({ req })
                /\ UNCHANGED << request, response >>
        /\ UNCHANGED << users, user_seq, posts, post_seq, now, given_password, issued >>

\* await db.execute(select(User).where(User.id == post_data.user_id))
FullPostUpdateCheckUser ==
    \E req \in Suspended :
        /\ req.op = "full_post_update" /\ req.pc = "user"
        /\ IF req.data.user_id \notin DOMAIN users
           THEN Respond(req, "full_post_update",
                        Resp(404, << "User not found." >>, NoHeaders, NoBody))
           ELSE /\ inflight' = Proceed(req, "commit")
                /\ UNCHANGED << request, response >>
        /\ UNCHANGED << users, user_seq, posts, post_seq, now, given_password, issued >>

\* await db.commit()
FullPostUpdateCommit ==
    \E req \in Suspended, foreign_keys \in BOOLEAN :
        LET r == full_post_update_commit(users, posts, req.post_id, req.post, req.data,
                                         foreign_keys) IN
        /\ req.op = "full_post_update" /\ req.pc = "commit"
        /\ posts' = r.posts
        /\ Respond(req, "full_post_update", r.resp)
        /\ UNCHANGED << users, user_seq, post_seq, now, given_password, issued >>

\* delete_user at its commit: the DELETEs of the posts that db.delete(user)
\* had loaded, then the DELETE of the user
delete_user_commit(tbl, ptbl, user_id, loaded, foreign_keys) ==
    LET new_users == Remove(tbl, {user_id})
        new_posts == Remove(ptbl, loaded)
    IN IF foreign_keys /\ ~ForeignKeysOk(new_users, new_posts)
       THEN [users |-> tbl, posts |-> ptbl, resp |-> InternalServerError]
       ELSE [users |-> new_users, posts |-> new_posts,
             resp |-> Resp(204, << "" >>, NoHeaders, NoBody)]

ReceiveDeleteUser ==
    \E user_id \in UserIds :
        /\ BagCardinality(inflight) < MaxInflight
        /\ inflight' = Suspend([op |-> "delete_user", pc |-> "fetch", user_id |-> user_id,
                                loaded |-> {}])
        /\ UNCHANGED << users, user_seq, posts, post_seq, now, request, response,
                        given_password, issued >>

\* await db.execute(select(User).where(User.id == user_id))
DeleteUserFetch ==
    \E req \in Suspended :
        /\ req.op = "delete_user" /\ req.pc = "fetch"
        /\ IF req.user_id \notin DOMAIN users
           THEN Respond(req, "delete_user",
                        Resp(404, << "User not found." >>, NoHeaders, NoBody))
           ELSE /\ inflight' = Proceed(req, "delete")
                /\ UNCHANGED << request, response >>
        /\ UNCHANGED << users, user_seq, posts, post_seq, now, given_password, issued >>

\* await db.delete(user): the cascade loads user.posts
DeleteUserLoadPosts ==
    \E req \in Suspended :
        /\ req.op = "delete_user" /\ req.pc = "delete"
        /\ inflight' = Suspend([req EXCEPT !.loaded = PostsOf(posts, req.user_id),
                                           !.pc = "commit"])
                        (-) SetToBag({ req })
        /\ UNCHANGED << users, user_seq, posts, post_seq, now, request, response,
                        given_password, issued >>

\* await db.commit()
DeleteUserCommit ==
    \E req \in Suspended, foreign_keys \in BOOLEAN :
        LET r == delete_user_commit(users, posts, req.user_id, req.loaded, foreign_keys) IN
        /\ req.op = "delete_user" /\ req.pc = "commit"
        /\ users' = r.users
        /\ posts' = r.posts
        /\ given_password' = Remove(given_password, DOMAIN given_password \ DOMAIN r.users)
        /\ Respond(req, "delete_user", r.resp)
        /\ UNCHANGED << user_seq, post_seq, now, issued >>

Init ==
    /\ users = << >>
    /\ user_seq = 0
    /\ posts = << >>
    /\ post_seq = 0
    /\ now = 0
    /\ request = Req("none", NoForm)
    /\ response = Resp(0, << "" >>, NoHeaders, NoBody)
    /\ given_password = << >>
    /\ issued = {}
    /\ inflight = EmptyBag

Next == CreateUser \/ UpdateUser \/ DeleteUser \/ Login

Spec == Init /\ [][Next]_vars

\* The application of main.py over the same database: users are created
\* through the users router, PATCH is served by main.update_user.
NextMain == CreateUser \/ MainUpdateUser \/ DeleteUser

SpecMain == Init /\ [][NextMain]_vars

\* The token service alone, under a running clock.
NextToken == Tick \/ IssueToken \/ VerifyToken

SpecToken == Init /\ [][NextToken]_vars

\* "a" / "a@x" and "b" / "b@x", one password
AuthUserCreates ==
    { [username |-> << 97 >>, email |-> << 97, 64, 120 >>, password |-> "password1"],
      [username |-> << 98 >>, email |-> << 98, 64, 120 >>, password |-> "password1"] }

\* GET /api/user/me over a changing users table, under a running clock.
NextAuth == CreateUserFrom(AuthUserCreates) \/ DeleteUser \/ Tick \/ GetCurrentUser

SpecAuth == Init /\ [][NextAuth]_vars

\* a change of username (of its letter case, for user "a") with a new
\* profile picture
FewUserUpdates ==
    { [email |-> Unset, username |-> << 65 >>, image_file |-> << 112 >>] }

\* The users and posts routers over one database, at one instant.
NextPosts ==
    \/ CreateUserFrom(AuthUserCreates)
    \/ UpdateUserFrom(FewUserUpdates)
    \/ DeleteUser
    \/ CreatePost
    \/ FullPostUpdate
    \/ PartialPostUpdate
    \/ DeletePost

SpecPosts == Init /\ [][NextPosts]_vars

\* Clients that log in, keep their tokens and present them later, while
\* users are created, renamed and deleted.  All of it happens well within
\* the lifetime of a token, so the clock stands.
NextSession ==
    \/ CreateUserFrom(AuthUserCreates)
    \/ UpdateUserFrom(FewUserUpdates)
    \/ DeleteUser
    \/ LoginAndKeep
    \/ PresentIssued

SpecSession == Init /\ [][NextSession]_vars

\* "a" and "A" under different emails, and "a" once more under the email
\* of "A"
RaceUserCreates ==
    { [username |-> << 97 >>, email |-> << 97, 64, 120 >>, password |-> "password1"],
      [username |-> << 65 >>, email |-> << 98, 64, 120 >>, password |-> "password1"],
      [username |-> << 97 >>, email |-> << 98, 64, 120 >>, password |-> "password1"] }

\* Registrations that overtake one another at their awaits.
NextCreateRace ==
    \/ ReceiveCreateUser(RaceUserCreates)
    \/ CreateUserCheckUsername
    \/ CreateUserCheckEmail
    \/ CreateUserCommit

SpecCreateRace == Init /\ [][NextCreateRace]_vars

\* a change of username to "b", and a change of email to "b@x"
RaceUserUpdates ==
    { [email |-> Unset, username |-> << 98 >>, image_file |-> Unset],
      [email |-> << 98, 64, 120 >>, username |-> Unset, image_file |-> Unset] }

\* Registrations and profile updates that overtake one another at their
\* awaits.
NextRace ==
    \/ ReceiveCreateUser(RaceUserCreates)
    \/ CreateUserCheckUsername
    \/ CreateUserCheckEmail
    \/ CreateUserCommit
    \/ ReceiveUpdateUser(RaceUserUpdates)
    \/ UpdateUserFetch
    \/ UpdateUserCheckUsername
    \/ UpdateUserCheckEmail
    \/ UpdateUserCommit

SpecRace == Init /\ [][NextRace]_vars

\* posts of one title
ListPostCreates == [title : { << 116 >> }, content : Contents, user_id : UserIds]

\* The listings over a database where users and posts come and go, under a
\* running clock.
NextList ==
    \/ CreateUserFrom(AuthUserCreates)
    \/ DeleteUser
    \/ CreatePostFrom(ListPostCreates)
    \/ DeletePost
    \/ Tick
    \/ GetPosts
    \/ GetUserPosts

SpecList == Init /\ [][NextList]_vars

\* Posts written while their owners are deleted: the requests overtake one
\* another at their awaits.  Users register one at a time.
NextPostRace ==
    \/ CreateUserFrom(AuthUserCreates)
    \/ ReceiveCreatePost(ListPostCreates)
    \/ CreatePostCheckUser
    \/ CreatePostCommit
    \/ ReceiveFullPostUpdate(ListPostCreates)
    \/ FullPostUpdateFetch
    \/ FullPostUpdateCheckUser
    \/ FullPostUpdateCommit
    \/ ReceiveDeleteUser
    \/ DeleteUserFetch
    \/ DeleteUserLoadPosts
    \/ DeleteUserCommit

SpecPostRace == Init /\ [][NextPostRace]_vars

(***************************************************************************)
(* Properties.                                                             *)
(***************************************************************************)
UserCount == Cardinality(DOMAIN users)

\* C1: after any sequence of create_user, update_user and delete_user
\* requests, no two persisted users share an email and no two have usernames
\* that are equal ignoring letter case.
C1_UniqueUsers ==
    \A i, j \in DOMAIN users :
        i # j => /\ users[i].email # users[j].email
                 /\ Lower(users[i].username) # Lower(users[j].username)

\* two users persisted, the last of the requests a successful update that
\* changed the letter case of a username
C1_Witness ==
    /\ UserCount = 2
    /\ request.op = "update_user"
    /\ response.status = 200
    /\ \E i \in DOMAIN users : users[i].username # Lower(users[i].username)

\* the username (ignoring letter case) or the lowercased email is in use
UsedByAnother(user) ==
    \E i \in DOMAIN users :
        \/ Lower(users[i].username) = Lower(user.username)
        \/ users[i].email = Lower(user.email)

\* C2: create_user with a username that an existing user has ignoring letter
\* case, or an email that an existing user has after lowercasing, answers
\* 400 and leaves the users table as it was; and every create_user step
\* either does that or answers 201 and adds one row that clashes with no
\* earlier row: never a new user for a used name, never an overwrite.
C2_CreateConflict ==
    /\ [](\A user \in UserCreates, salt \in Salts, id \in NewIds(users, user_seq) :
            UsedByAnother(user) =>
                /\ create_user(users, user, id, salt).resp.status = 400
                /\ create_user(users, user, id, salt).users = users)
    /\ [][request'.op = "create_user" =>
            \/ /\ response'.status = 400
               /\ users' = users
            \/ /\ response'.status = 201
               /\ \E id \in DOMAIN users' \ DOMAIN users :
                    /\ users' = Put(users, id, users'[id])
                    /\ \A i \in DOMAIN users :
                          /\ Lower(users[i].username) # Lower(users'[id].username)
                          /\ users[i].email # users'[id].email]_vars

\* create_user answered 400 to a username that differs from an existing one
\* in letter case only ('ALICE' after 'alice')
C2_Witness ==
    /\ request.op = "create_user"
    /\ response.status = 400
    /\ response.detail[1] = "User with username: "
    /\ \E i \in DOMAIN users :
          /\ users[i].username # response.detail[2]
          /\ Lower(users[i].username) = Lower(response.detail[2])

NoSuchUser(form) == ByEmail(users, Lower(form.username)) = {}

WrongPassword(form) ==
    \E i \in ByEmail(users, Lower(form.username)) : form.password # given_password[i]

\* C3: a login with an email no user has and a login with an existing email
\* and a wrong password get the same response: 401, one detail text, the
\* WWW-Authenticate header.
C3_LoginFailsUniformly ==
    /\ \A f1, f2 \in LoginForms :
          NoSuchUser(f1) /\ WrongPassword(f2) =>
              /\ login_for_access_token(users, f1, now)
                    = login_for_access_token(users, f2, now)
              /\ login_for_access_token(users, f1, now).status = 401
    /\ request.op = "login" /\ (NoSuchUser(request.form) \/ WrongPassword(request.form))
          => response = Unauthorized("Incorrect email or password")

\* a login with an existing email and a wrong password was refused, while
\* some other email matches no user
C3_Witness ==
    /\ request.op = "login"
    /\ response.status = 401
    /\ WrongPassword(request.form)
    /\ \E f \in LoginForms : NoSuchUser(f)

\* the users a login form authenticates
Authenticated(form) ==
    { i \in DOMAIN users : /\ users[i].email = Lower(form.username)
                           /\ given_password[i] = form.password }

\* C4: login answers 200 exactly when a user exists whose stored email is the
\* lowercased username field and the password is the one given when that
\* user was created; the token then has type bearer and its sub claim is the
\* decimal string of the user's id.  Every other login answers 401.
C4_LoginCorrect ==
    request.op = "login" =>
        IF Authenticated(request.form) # {}
        THEN /\ response.status = 200
             /\ response.body.token_type = "bearer"
             /\ \A i \in Authenticated(request.form) :
                   /\ response.body.access_token.payload.sub = Str(i)
                   /\ int(verify_access_token(response.body.access_token, now)).value = i
        ELSE response.status = 401

\* a login in another letter case than the stored email succeeded, with two
\* users persisted
C4_Witness ==
    /\ request.op = "login"
    /\ response.status = 200
    /\ request.form.username # Lower(request.form.username)
    /\ UserCount = 2

\* the ttl passed to create_access_token, for the calls that pass one
PassedTtl(rec) == rec.delta[1]

\* C5 as claimed: a token issued with ttl T verifies to its subject at every
\* instant before issue time + T and to None at every instant after it, and
\* once it has verified to None it never verifies to the subject again.
C5_ExpiryIsIssuePlusTtl ==
    \A rec \in issued :
        rec.delta # << >> =>
            /\ now < rec.at + PassedTtl(rec) => verify_access_token(rec.token, now) = rec.sub
            /\ now > rec.at + PassedTtl(rec) => verify_access_token(rec.token, now) = None
            /\ rec.seen_none => verify_access_token(rec.token, now) = None

\* the token failures C6 names
Malformed(token) == ~token.wellformed

WrongKey(token) == token.key # secret_key

MissingClaim(token) == ~HasClaim(token.payload, "exp") \/ ~HasClaim(token.payload, "sub")

Expired(token) ==
    HasClaim(token.payload, "exp") /\ token.payload.exp * TicksPerSecond <= now

SubNotInteger(token) ==
    /\ HasClaim(token.payload, "sub")
    /\ ~int(token.payload.sub).ok

TokenFailure(token) ==
    \/ Malformed(token)
    \/ WrongKey(token)
    \/ MissingClaim(token)
    \/ Expired(token)
    \/ SubNotInteger(token)

\* C6: any two tokens that are malformed, signed with a wrong key, expired,
\* missing exp or sub, or carrying a sub that is no integer string get the
\* same response from get_current_user (each gets the one response below):
\* 401, one detail text, the WWW-Authenticate header, and no user record.
C6_TokenFailuresCollapse ==
    /\ \A t \in PresentedTokens :
          TokenFailure(t) =>
              get_current_user(users, t, now) = Unauthorized("Invalid or expired token")
    /\ Unauthorized("Invalid or expired token").status = 401
    /\ Unauthorized("Invalid or expired token").headers = Bearer
    /\ Unauthorized("Invalid or expired token").body = NoBody
    /\ request.op = "get_current_user" /\ TokenFailure(request.form)
          => response = Unauthorized("Invalid or expired token")

\* a token of an existing user, well signed and complete, was refused only
\* because it has expired
C6_Witness ==
    /\ request.op = "get_current_user"
    /\ response.status = 401
    /\ Expired(request.form)
    /\ ~Malformed(request.form) /\ ~WrongKey(request.form)
    /\ ~MissingClaim(request.form) /\ ~SubNotInteger(request.form)
    /\ request.form.alg = algorithm
    /\ int(request.form.payload.sub).value \in DOMAIN users

\* every post's owner is a persisted user
NoOrphans == \A p \in DOMAIN posts : posts[p].user_id \in DOMAIN users

\* C7: after any sequence of user and post requests every post's user_id is
\* the id of a persisted user; a delete_user that succeeds removes one user
\* and exactly the posts of that user, a delete_user that fails changes
\* nothing.
C7_NoOrphanedPosts ==
    /\ []NoOrphans
    /\ [][request'.op = "delete_user" =>
            IF response'.status = 204
            THEN \E u \in DOMAIN users :
                    /\ users' = Remove(users, {u})
                    /\ posts' = Remove(posts, PostsOf(posts, u))
            ELSE /\ response'.status = 404
                 /\ users' = users
                 /\ posts' = posts]_vars

\* a user was deleted after posts had been created, and a post of the other
\* user is still there
C7_Witness ==
    /\ request.op = "delete_user"
    /\ response.status = 204
    /\ UserCount = 1
    /\ Cardinality(DOMAIN posts) = 1
    /\ post_seq = 2
    /\ user_seq = 2

\* C8: create_post with a user_id no user has answers 404 and changes
\* neither table; with the user_id of an existing user it answers 201 and
\* adds exactly one post, of that user, with the submitted title and content.
C8_CreatePost ==
    /\ [](\A post \in PostCreates, id \in NewIds(posts, post_seq) :
            LET r == create_post(users, posts, post, id, now) IN
            IF post.user_id \notin DOMAIN users
            THEN r.resp.status = 404 /\ r.posts = posts
            ELSE /\ r.resp.status = 201
                 /\ DOMAIN r.posts = DOMAIN posts \cup {id}
                 /\ id \notin DOMAIN posts
                 /\ \A p \in DOMAIN posts : r.posts[p] = posts[p]
                 /\ r.posts[id].user_id = post.user_id
                 /\ r.posts[id].title = post.title
                 /\ r.posts[id].content = post.content)
    /\ [][request'.op = "create_post" =>
            /\ users' = users
            /\ \/ response'.status = 404 /\ posts' = posts
               \/ /\ response'.status = 201
                  /\ \E id \in DOMAIN posts' \ DOMAIN posts :
                        /\ posts' = Put(posts, id, posts'[id])
                        /\ posts'[id].user_id \in DOMAIN users
                        /\ response'.body.id = id
                        /\ response'.body.title = posts'[id].title
                        /\ response'.body.content = posts'[id].content
                        /\ response'.body.user_id = posts'[id].user_id]_vars

\* create_post answered 404 for a missing user while a user and an earlier
\* post of that user are persisted
C8_Witness ==
    /\ request.op = "create_post"
    /\ response.status = 404
    /\ UserCount = 1
    /\ DOMAIN posts # {}

\* asked to change the username or email of user_id to a value another
\* user has
AsksForUsedValue(user_id, user_data) ==
    \E j \in DOMAIN users \ {user_id} :
        \/ user_data.username = users[j].username
        \/ /\ Given(user_data.email)
           /\ Lower(user_data.email) = users[j].email

\* C9 as claimed: both handlers of PATCH /api/user/{user_id}, asked to change
\* an existing user's username or email to a value a different user has,
\* answer 400 and leave every user unchanged.
C9_BothHandlersConflict ==
    \A user_id \in DOMAIN users, user_data \in UserUpdates :
        AsksForUsedValue(user_id, user_data) =>
            /\ update_user(users, user_id, user_data).resp.status = 400
            /\ update_user(users, user_id, user_data).users = users
            /\ main_update_user(users, user_id, user_data).resp.status = 400
            /\ main_update_user(users, user_id, user_data).users = users

\* C10 as claimed: update_user ends with 200, 404 or 400, never with an
\* unhandled error.
C10_ThreeOutcomes ==
    request.op = "update_user" => response.status \in {200, 404, 400}

\* C11: a successful update_user changes only the fields present in the
\* request body: each of email, username and image_file that the body leaves
\* out keeps its previous value, id and password_hash stay, the set of users
\* stays, no other user changes and no post changes.
C11_UpdateFrame ==
    /\ [](\A user_id \in DOMAIN users, user_data \in UserUpdates :
            LET r == update_user(users, user_id, user_data) IN
            r.resp.status = 200 =>
                /\ DOMAIN r.users = DOMAIN users
                /\ \A o \in DOMAIN users \ {user_id} : r.users[o] = users[o]
                /\ r.users[user_id].password_hash = users[user_id].password_hash
                /\ r.resp.body.id = user_id
                /\ user_data.email = Unset =>
                        r.users[user_id].email = users[user_id].email
                /\ user_data.username = Unset =>
                        r.users[user_id].username = users[user_id].username
                /\ user_data.image_file = Unset =>
                        r.users[user_id].image_file = users[user_id].image_file)
    /\ [][request'.op = "update_user" /\ response'.status = 200 =>
            /\ posts' = posts
            /\ post_seq' = post_seq
            /\ user_seq' = user_seq
            /\ DOMAIN users' = DOMAIN users
            /\ \A i \in DOMAIN users :
                    users'[i].password_hash = users[i].password_hash
            /\ \A i, j \in DOMAIN users :
                    users'[i] # users[i] /\ users'[j] # users[j] => i = j]_vars

\* update_user has changed the username and picture of one user while the
\* other user and a post are persisted
C11_Witness ==
    /\ request.op = "update_user"
    /\ response.status = 200
    /\ UserCount = 2
    /\ DOMAIN posts # {}
    /\ \E i \in DOMAIN users : users[i].image_file = << 112 >>
    /\ \E i \in DOMAIN users : users[i].image_file = None

\* C13: every persisted user's email is lowercase.  create_user and
\* update_user store the lowercased form of the email they are given, login
\* answers alike for every letter case of the submitted email, and the email
\* a user was created with logs that user in whatever case it is typed in.
C13_EmailsLowercase ==
    /\ \A i \in DOMAIN users : users[i].email = Lower(users[i].email)
    /\ \A user \in UserCreates, id \in NewIds(users, user_seq), salt \in Salts :
            LET r == create_user(users, user, id, salt) IN
            r.resp.status = 201 =>
                /\ r.users[id].email = Lower(user.email)
                /\ \A e \in RawEmails :
                        Lower(e) = Lower(user.email) =>
                            login_for_access_token(
                                r.users, [username |-> e, password |-> user.password],
                                now).status = 200
    /\ \A user_id \in DOMAIN users, user_data \in UserUpdates :
            LET r == update_user(users, user_id, user_data) IN
            r.resp.status = 200 /\ Given(user_data.email) =>
                r.users[user_id].email = Lower(user_data.email)
    /\ \A f, g \in LoginForms :
            Lower(f.username) = Lower(g.username) /\ f.password = g.password =>
                login_for_access_token(users, f, now)
                    = login_for_access_token(users, g, now)

\* a login typed in capitals succeeded for the only user, whose stored email
\* is the lowercase form of what was typed
C13_Witness ==
    /\ request.op = "login"
    /\ response.status = 200
    /\ request.form.username = << 65, 64, 120 >>
    /\ UserCount = 1
    /\ \E i \in DOMAIN users : users[i].email = << 97, 64, 120 >>

\* the listing names each of the rows ids once, as that row and its author
\* are persisted, and no row of the listing is newer than the row before it
ListsNewestFirst(items, ids) ==
    /\ Len(items) = Cardinality(ids)
    /\ { items[i].id : i \in 1 .. Len(items) } = ids
    /\ \A i \in 1 .. Len(items) :
            items[i] = PostResponse(users, items[i].id, posts[items[i].id])
    /\ \A i \in 1 .. (Len(items) - 1) :
            items[i].date_posted >= items[i + 1].date_posted

\* C12: get_posts returns all persisted posts and get_user_posts exactly the
\* posts of the given user, each listing newest first by date_posted (of two
\* adjacent posts the earlier has date_posted >= the later);
\* get_user_posts answers 404 when the user does not exist or has no posts.
C12_ListingsNewestFirst ==
    /\ request.op = "get_posts" =>
            /\ response.status = 200
            /\ ListsNewestFirst(response.body.items, DOMAIN posts)
    /\ request.op = "get_user_posts" =>
            LET user_id == request.form.user_id IN
            IF user_id \notin DOMAIN users \/ PostsOf(posts, user_id) = {}
            THEN response.status = 404
            ELSE /\ response.status = 200
                 /\ ListsNewestFirst(response.body.items, PostsOf(posts, user_id))

\* get_posts listed two posts of different instants and different authors,
\* the newer one first
C12_Witness ==
    /\ request.op = "get_posts"
    /\ Len(response.body.items) = 2
    /\ response.body.items[1].date_posted > response.body.items[2].date_posted
    /\ response.body.items[1].user_id # response.body.items[2].user_id

\* C17 as claimed: a token that login issued to user U, presented to
\* get_current_user at any later time and after any creations, updates and
\* deletions of users, yields U's own record or a 401, never the record of
\* another user.
C17_TokenYieldsItsOwnUser ==
    request.op = "get_current_user" =>
        \A rec \in issued :
            rec.token = request.form =>
                \/ response.status = 401
                \/ /\ response.status = 200
                   /\ ~rec.holder_deleted
                   /\ response.body.id = int(rec.sub).value

\* C14: in concurrent create_user requests the duplicate check and the
\* insert are not atomic.  A request that has passed both checks and waits
\* at its commit is committed exactly when its exact username and its email
\* are free in the table as it is then, whatever has been committed since
\* the check: a username equal to it up to letter case does not stop it.  So
\* two requests that both pass the username check before either commits can
\* both be persisted (the witness: "a" and "A").
C14_CheckThenInsertNotAtomic ==
    \A req \in Suspended :
        req.op = "create_user" /\ req.pc = "commit" =>
            \A id \in NewIds(users, user_seq), salt \in Salts :
                LET r == create_user_commit(users, req.user, id, salt) IN
                /\ r.resp.status \in { 201, 500 }
                /\ r.resp.status = 201 <=>
                        /\ ByExactUsername(users, req.user.username) = {}
                        /\ ByEmail(users, Lower(req.user.email)) = {}
                /\ r.resp.status = 201 =>
                        /\ id \notin DOMAIN users
                        /\ r.users = Put(users, id, r.users[id])
                        /\ r.users[id].username = req.user.username

\* two registrations have both been committed, under the usernames "a" and
\* "A"
C14_Witness ==
    /\ request.op = "create_user"
    /\ response.status = 201
    /\ \E i, j \in DOMAIN users :
            /\ users[i].username = << 97 >>
            /\ users[j].username = << 65 >>
            /\ Lower(users[i].username) = Lower(users[j].username)

\* the row a waiting create_user would insert has the exact username or the
\* email of a persisted user
CreateCollides(req) ==
    \/ ByExactUsername(users, req.user.username) # {}
    \/ ByEmail(users, Lower(req.user.email)) # {}

\* the row a waiting update_user would write has the exact username or the
\* email of another persisted user
UpdateCollides(req) ==
    \E j \in DOMAIN users \ { req.user_id } :
        \/ "username" \in Dirty(req.user, req.data)
              /\ users[j].username = req.data.username
        \/ "email" \in Dirty(req.user, req.data)
              /\ users[j].email = req.data.email

\* C15: under every interleaving of concurrent create_user and update_user
\* requests no two persisted users have the same email or the same exact
\* username: a commit that would make two such rows is rejected by the
\* unique constraints of the table and changes nothing, though the request
\* has passed its checks.
C15_UniqueUnderConcurrency ==
    /\ \A i, j \in DOMAIN users :
            i # j => /\ users[i].email # users[j].email
                     /\ users[i].username # users[j].username
    /\ \A req \in Suspended :
            /\ req.op = "create_user" /\ req.pc = "commit" /\ CreateCollides(req) =>
                    \A id \in NewIds(users, user_seq), salt \in Salts :
                        /\ create_user_commit(users, req.user, id, salt).resp.status = 500
                        /\ create_user_commit(users, req.user, id, salt).users = users
            /\ req.op = "update_user" /\ req.pc = "commit" /\ req.user_id \in DOMAIN users
                    /\ UpdateCollides(req) =>
                    LET r == update_user_commit(users, req.user_id, req.user, req.data) IN
                    r.resp.status = 500 /\ r.users = users

\* the commit of a create_user that had passed both checks was rejected by
\* the table, which holds two users, one of them renamed to "b"
C15_Witness ==
    /\ request.op = "create_user"
    /\ response.status = 500
    /\ UserCount = 2
    /\ \E i \in DOMAIN users : users[i].username = << 98 >>

\* C16 as claimed: under every interleaving of create_post or
\* full_post_update with a concurrent delete_user of the user named as
\* owner, no persisted post has a user_id that no persisted user has.
C16_NoOrphanUnderConcurrency ==
    \A p \in DOMAIN posts : posts[p].user_id \in DOMAIN users
====
